---- MODULE Spec2Model ----
(***************************************************************************)
(* A model of passkit-generator's Pass class (src/index.js): the fluent    *)
(* setters, the property merge (_patch), the scan-code helpers, credential *)
(* loading (_parseSettings / __parsePEM) and the generate() pipeline that  *)
(* builds the bundle, its manifest and its signature.                      *)
(*                                                                         *)
(* JavaScript strings that the code searches, cuts or rewrites are         *)
(* sequences of one-character strings, so that includes(), toLowerCase(),  *)
(* replace() and the regular expressions are computed, not assumed.        *)
(* Property names and other identifiers that are only compared are TLA+    *)
(* strings.  A JSON value is a pair <<tag, payload>>.                      *)
(***************************************************************************)
EXTENDS Integers, Sequences, FiniteSets, TLC

VARIABLES
    options,          \* this.options, as given to the constructor
    model,            \* this.model
    l10n,             \* this.l10n: language -> (key -> translation)
    props,            \* this.props: property name -> JSON value
    shouldOverwrite,  \* this.shouldOverwrite
    Certificates,     \* this.Certificates: role -> parsed credential
    areaFields,       \* this[area].fields for every area of fields.areas
    type,             \* this.type, set by _validateType
    disk,             \* the file system generate() reads
    pc,               \* position of generate() in its promise chain
    files,            \* generate: the listing readdir(this.model) resolved to
    bundle,           \* generate: the local array `bundle` (member names)
    buffers,          \* generate: the local array `buffers`
    L10N,             \* generate: the local array `L10N`
    archive,          \* the members appended to the archiver, in order
    manifest,         \* generate: the manifest built by the reduce
    io,               \* the kinds of I/O and derived-content events so far
    error,            \* the error generate() failed with, or "none"
    call,             \* the last operation called and its argument
    ret,              \* what the last setter call returned
    handles,          \* bound helper closures a barcode() result handed out
    barcodeAlias,     \* which element of props.barcodes props.barcode is (the
                      \* same object, by reference), 0 when it is none of them
    passBuffer,       \* _patch, taken alone: its argument
    patched           \* _patch, taken alone: its result

vars == << options, model, l10n, props, shouldOverwrite, Certificates,
           areaFields, type, disk, pc, files, bundle, buffers, L10N, archive,
           manifest, io, error, call, ret, handles, barcodeAlias,
           passBuffer, patched >>

passVars == << options, model, l10n, props, shouldOverwrite, Certificates,
               areaFields, type >>

generateVars == << pc, files, bundle, buffers, L10N, archive, manifest, io,
                   error >>

patchVars == << passBuffer, patched >>

-----------------------------------------------------------------------------
(* Bounds of the model *)

\* longest array drawn as a descriptor value or as an override
MaxArrayLen == 2
\* most field records accumulated in one field area
MaxFields == 2

-----------------------------------------------------------------------------
(* Strings as sequences of characters *)

UpperCase == << "A","B","C","D","E","F","G","H","I","J","K","L","M",
                "N","O","P","Q","R","S","T","U","V","W","X","Y","Z" >>

LowerCase == << "a","b","c","d","e","f","g","h","i","j","k","l","m",
                "n","o","p","q","r","s","t","u","v","w","x","y","z" >>

DigitChars == << "0","1","2","3","4","5","6","7","8","9" >>

Range(s) == { s[i] : i \in DOMAIN s }

\* String.prototype.toLowerCase, one character
lowerChar(c) ==
    IF \E i \in DOMAIN UpperCase : UpperCase[i] = c
    THEN LowerCase[CHOOSE i \in DOMAIN UpperCase : UpperCase[i] = c]
    ELSE c

\* String.prototype.toLowerCase
toLowerCase(s) == [ i \in DOMAIN s |-> lowerChar(s[i]) ]

\* String.prototype.includes
includes(s, t) ==
    \E i \in 0..(Len(s) - Len(t)) : SubSeq(s, i + 1, i + Len(t)) = t

\* the numeric value of a digit character
digitValue(c) == (CHOOSE i \in DOMAIN DigitChars : DigitChars[i] = c) - 1

isDigit(c) == c \in Range(DigitChars)

isSpace(c) == c \in {" ", "\t", "\n"}

\* concatenation of a sequence of strings with a separator (Array.join)
RECURSIVE join(_, _)
join(parts, sep) ==
    IF parts = << >> THEN << >>
    ELSE IF Len(parts) = 1 THEN parts[1]
    ELSE parts[1] \o sep \o join(Tail(parts), sep)

-----------------------------------------------------------------------------
(* JSON values *)

Str(s)  == << "string", s >>
Num(n)  == << "number", n >>
Bool(b) == << "boolean", b >>
Arr(a)  == << "array", a >>
Obj(o)  == << "object", o >>
Undefined == << "undefined", 0 >>
Null == << "null", 0 >>

tagOf(v) == v[1]
payload(v) == v[2]

EmptyObject == [ k \in {} |-> Undefined ]

\* obj[key] in JavaScript: undefined when the key is absent
get(o, k) == IF k \in DOMAIN o THEN o[k] ELSE Undefined

\* obj[key] = value
set(o, k, v) == [ x \in (DOMAIN o) \cup {k} |-> IF x = k THEN v ELSE o[x] ]

\* delete obj[key]
delete(o, k) == [ x \in (DOMAIN o) \ {k} |-> o[x] ]

\* Object.assign(target, source) on the property maps
assign(target, source) ==
    [ x \in (DOMAIN target) \cup (DOMAIN source) |->
        IF x \in DOMAIN source THEN source[x] ELSE target[x] ]

\* JavaScript truthiness
truthy(v) ==
    CASE tagOf(v) = "string"    -> payload(v) # << >>
      [] tagOf(v) = "number"    -> payload(v) # 0
      [] tagOf(v) = "boolean"   -> payload(v)
      [] tagOf(v) = "array"     -> TRUE
      [] tagOf(v) = "object"    -> TRUE
      [] OTHER                  -> FALSE

\* value instanceof Array
isArray(v) == tagOf(v) = "array"

\* value instanceof Object (arrays are objects too)
isObject(v) == tagOf(v) \in {"array", "object"}

\* property names Object.assign and the spread give to indices
IndexKey == << "0", "1", "2", "3", "4", "5", "6", "7" >>

\* the own enumerable properties Object.assign(target, v) copies from v
ownProperties(v) ==
    CASE tagOf(v) = "object" -> payload(v)
      [] tagOf(v) = "array"  ->
            [ k \in { IndexKey[i] : i \in DOMAIN payload(v) } |->
                payload(v)[CHOOSE i \in DOMAIN payload(v) : IndexKey[i] = k] ]
      [] tagOf(v) = "string" ->
            [ k \in { IndexKey[i] : i \in DOMAIN payload(v) } |->
                Str(<< payload(v)[CHOOSE i \in DOMAIN payload(v) : IndexKey[i] = k] >>) ]
      [] OTHER -> EmptyObject

\* whether ...v can be spread into a call (arrays and strings are iterable)
iterable(v) == tagOf(v) \in {"array", "string"}

\* the elements ...v spreads
spread(v) ==
    IF tagOf(v) = "array" THEN payload(v)
    ELSE [ i \in DOMAIN payload(v) |-> Str(<< payload(v)[i] >>) ]

\* A Buffer: how its bytes are laid out, and the JSON document they hold
\* ("raw": bytes that are not JSON, held as a string value).
Buffer(layout, doc) == [ layout |-> layout, doc |-> doc ]

RawBuffer(s) == Buffer("raw", Str(s))

\* JSON.stringify drops the properties whose value is undefined
dropUndefined(o) ==
    [ k \in { x \in DOMAIN o : o[x] # Undefined } |-> o[k] ]

\* Buffer.from(JSON.stringify(passFile)): the compact layout
stringify(o) == Buffer("compact", Obj(dropUndefined(o)))

\* whether JSON.parse(buffer.toString("utf8")) returns instead of throwing
parses(b) == b.layout # "raw"

\* JSON.parse(buffer.toString("utf8")), for a buffer that parses
parse(b) == b.doc

-----------------------------------------------------------------------------
(* isValidRGB *)

\* the first index from i on that is past the string or holds no white space
skipSpaces(s, i) ==
    CHOOSE j \in i..(Len(s) + 1) :
        /\ \A k \in i..(j - 1) : isSpace(s[k])
        /\ (j = Len(s) + 1 \/ ~isSpace(s[j]))

\* how many digits \d{1,3} takes at i (greedy; 0 when there is none)
digitRun(s, i) ==
    CHOOSE n \in 0..3 :
        /\ \A k \in i..(i + n - 1) : k <= Len(s) /\ isDigit(s[k])
        /\ (n = 3 \/ i + n > Len(s) \/ ~isDigit(s[i + n]))

\* Number() of the n digits at i
RECURSIVE numberAt(_, _, _)
numberAt(s, i, n) ==
    IF n = 0 THEN 0
    ELSE 10 * numberAt(s, i, n - 1) + digitValue(s[i + n - 1])

charAt(s, i) == IF i \in DOMAIN s THEN s[i] ELSE ""

\* isValidRGB(value): the regular expression
\* /^rgb\(\s*(\d{1,3})\s*,\s*(\d{1,3})\s*,\s*(\d{1,3})\s*\)/ and the channel test
isValidRGB(value) ==
    IF ~truthy(value) \/ tagOf(value) # "string" THEN FALSE
    ELSE
      LET s  == payload(value)
          a1 == skipSpaces(s, 5)
          n1 == digitRun(s, a1)
          c1 == skipSpaces(s, a1 + n1)
          a2 == skipSpaces(s, c1 + 1)
          n2 == digitRun(s, a2)
          c2 == skipSpaces(s, a2 + n2)
          a3 == skipSpaces(s, c2 + 1)
          n3 == digitRun(s, a3)
          c3 == skipSpaces(s, a3 + n3)
      IN  /\ Len(s) >= 4
          /\ SubSeq(s, 1, 4) = << "r", "g", "b", "(" >>
          /\ n1 >= 1 /\ charAt(s, c1) = ","
          /\ n2 >= 1 /\ charAt(s, c2) = ","
          /\ n3 >= 1 /\ charAt(s, c3) = ")"
          /\ numberAt(s, a1, n1) <= 255
          /\ numberAt(s, a2, n2) <= 255
          /\ numberAt(s, a3, n3) <= 255

-----------------------------------------------------------------------------
(* _patch *)

\* fields.areas, in declaration order
areas == << "primaryFields", "secondaryFields", "auxiliaryFields",
            "backFields", "headerFields" >>

rgbValues == << "backgroundColor", "foregroundColor", "labelColor" >>

\* this.props after
\* rgbValues.filter(v => this.props[v] && !isValidRGB(this.props[v]))
\*          .forEach(v => delete this.props[v])
dropInvalidColors(p) ==
    [ k \in { x \in DOMAIN p :
                ~(x \in Range(rgbValues) /\ truthy(p[x]) /\ ~isValidRGB(p[x])) }
        |-> p[k] ]

\* whether the extend branch throws on one property: push(...value) of a
\* value that cannot be spread
extendThrows(old, new) ==
    truthy(old) /\ isArray(old) /\ ~iterable(new)

\* extendProp with the array branch replacing instead of appending
extendProp_replacing(old, new) ==
    IF truthy(old)
    THEN IF isArray(old) THEN new
         ELSE IF isObject(old)
              THEN Obj(assign(payload(old), ownProperties(new)))
              ELSE old
    ELSE new

\* passFile[prop] after the extend branch handled prop (old: passFile[prop],
\* new: this.props[prop])
extendProp(old, new) ==
    IF truthy(old)
    THEN IF isArray(old) THEN Arr(payload(old) \o spread(new))
         ELSE IF isObject(old)
              THEN Obj(assign(payload(old), ownProperties(new)))
              ELSE old
    ELSE new

\* passFile after the property merge under either policy
mergeProps(passFile, p, overwrite) ==
    IF overwrite
    THEN assign(passFile, p)
    ELSE [ k \in (DOMAIN passFile) \cup (DOMAIN p) |->
             IF k \in DOMAIN p THEN extendProp(get(passFile, k), p[k])
             ELSE passFile[k] ]

\* whether passFile[this.type][area].push(...) throws for some area that has
\* accumulated fields
areasThrow(passFile, ty, af) ==
    \E i \in DOMAIN areas :
        /\ af[areas[i]] # << >>
        /\ \/ tagOf(get(passFile, ty)) # "object"
           \/ ~isArray(get(payload(get(passFile, ty)), areas[i]))

\* passFile[this.type] after every area's fields were pushed
pushAreas(structure, af) ==
    [ k \in DOMAIN structure |->
        IF k \in Range(areas) /\ af[k] # << >>
        THEN Arr(payload(structure[k]) \o af[k])
        ELSE structure[k] ]

\* the early return of _patch: nothing in this.props
patchSkips(p) == DOMAIN p = {}

\* _patch(passBuffer): whether it threw, the buffer it resolved to, and
\* this.props afterwards (the colour filter deletes from it)
_patch(buf, p, overwrite, ty, af) ==
    IF patchSkips(p)
    THEN [ threw |-> FALSE, buffer |-> buf, props |-> p ]
    ELSE IF ~parses(buf) \/ tagOf(parse(buf)) # "object"
    THEN [ threw |-> TRUE, buffer |-> buf, props |-> p ]
    ELSE
      LET passFile == payload(parse(buf))
          p2       == dropInvalidColors(p)
          merged   == mergeProps(passFile, p2, overwrite)
      IN  IF (~overwrite /\ \E k \in DOMAIN p2 :
                                extendThrows(get(passFile, k), p2[k]))
             \/ areasThrow(merged, ty, af)
          THEN [ threw |-> TRUE, buffer |-> buf, props |-> p2 ]
          ELSE [ threw |-> FALSE,
                 buffer |-> stringify(
                     IF ty \in DOMAIN merged /\ tagOf(merged[ty]) = "object"
                     THEN [ merged EXCEPT
                              ![ty] = Obj(pushAreas(payload(merged[ty]), af)) ]
                     ELSE merged),
                 props |-> p2 ]

-----------------------------------------------------------------------------
(* The constructor *)

\* this.shouldOverwrite =
\*   !(options.hasOwnProperty("shouldOverwrite") && !options.shouldOverwrite)
constructShouldOverwrite(opts) ==
    ~("shouldOverwrite" \in DOMAIN opts /\ ~truthy(opts["shouldOverwrite"]))

\* fields.areas.forEach(a => this[a] = new fields.FieldsArea())
constructAreas == [ a \in Range(areas) |-> << >> ]

\* the value of the generate() locals before generate() runs
NoBuffers == << >>
NoManifest == [ n \in {} |-> << >> ]

\* what `ret` holds before any setter was called
NoReturn == [ kind |-> "none", same |-> FALSE, length |-> 0,
              autocomplete |-> "absent", backward |-> "absent", methods |-> {} ]

\* what `call` holds before any operation was called
NoCall == [ op |-> "none", arg |-> Undefined ]

\* an operation called with this argument
Called(op, arg) == [ op |-> op, arg |-> arg ]

\* what `patched` holds before _patch ran
NotPatched == [ threw |-> FALSE, buffer |-> RawBuffer(<< >>),
                props |-> EmptyObject ]

\* the state `new Pass(opts)` leaves in the fields of the Pass
Constructed(opts) ==
    /\ options = opts
    /\ Certificates = [ r \in {} |-> Undefined ]
    /\ model = << >>
    /\ l10n = [ l \in {} |-> EmptyObject ]
    /\ props = EmptyObject
    /\ shouldOverwrite = constructShouldOverwrite(opts)
    /\ areaFields = constructAreas
    /\ type = "undefined"

\* generate() not started
NotGenerating ==
    /\ pc = "idle"
    /\ files = << >>
    /\ bundle = << >>
    /\ buffers = NoBuffers
    /\ L10N = << >>
    /\ archive = << >>
    /\ manifest = NoManifest
    /\ io = {}
    /\ error = "none"

\* no setter called yet
NothingReturned ==
    /\ call = NoCall
    /\ ret = NoReturn
    /\ handles = {}
    /\ barcodeAlias = 0

\* _patch not taken alone
NoPatchAlone ==
    /\ passBuffer = RawBuffer(<< >>)
    /\ patched = NotPatched

\* no file system
NoDisk == [ exists |-> FALSE, root |-> << >>, listing |-> << >>,
            folders |-> [ f \in {} |-> << >> ],
            content |-> [ f \in {} |-> RawBuffer(<< >>) ],
            pem |-> [ f \in {} |-> << >> ] ]

-----------------------------------------------------------------------------
(* _patch taken alone: its inputs are drawn, then it is applied once *)

\* a field record, as FieldsArea.push accepts it
Field(n) == Obj([ k \in {"key"} |-> Num(n) ])

\* the arrays <<1, ..., n>> of at most MaxArrayLen elements, as JSON values
PatchArrays == { Arr([ i \in 1..n |-> Num(i) ]) : n \in 0..MaxArrayLen }

rgbOk  == << "r","g","b","(","2","5","5",","," ","0",",","7",")" >>
rgbBad == << "r","g","b","(","9","9","9",",","0",",","0",")" >>

PatchKeys == { "serialNumber", "maxDistance", "locations", "userInfo",
               "backgroundColor" }

\* the values each property of this.props is drawn from (absent: Undefined)
PatchPropValues(k) ==
    CASE k = "serialNumber"    -> { Undefined, Str(<< "A" >>) }
      [] k = "maxDistance"     -> { Undefined, Num(7) }
      [] k = "locations"       -> { Undefined } \cup PatchArrays
      [] k = "userInfo"        -> { Undefined, Obj([ x \in {"a"} |-> Num(1) ]) }
      [] k = "backgroundColor" -> { Undefined, Str(rgbOk), Str(rgbBad) }

\* the values each top-level property of the descriptor is drawn from
PatchDocValues(k) ==
    CASE k = "serialNumber"    -> { Undefined, Str(<< "B" >>), Str(<< >>) }
      [] k = "maxDistance"     -> { Undefined, Num(5) }
      [] k = "locations"       -> { Undefined, Arr(<< Num(0) >>) }
      [] k = "userInfo"        -> { Undefined, Obj([ x \in {"b"} |-> Num(2) ]) }
      [] k = "backgroundColor" -> { Undefined }

\* an object from a choice of value per key, Undefined meaning absent
pick(choice) == [ k \in { x \in DOMAIN choice : choice[x] # Undefined } |-> choice[k] ]

\* the type structure of the drawn descriptors: one original record per area,
\* the areas in `missing` left out
structureOf(missing) ==
    Obj([ a \in Range(areas) \ missing |-> Arr(<< Field(0) >>) ])

\* a pass.json on disk: pretty-printed JSON
DescriptorFile(o) == Buffer("pretty", Obj(o))

\* the descriptors (pass.json contents) drawn
PatchDocs ==
    { DescriptorFile(set(pick(c), "generic", structureOf(m))) :
        c \in { f \in [ PatchKeys -> UNION { PatchDocValues(k) : k \in PatchKeys } ] :
                  \A k \in PatchKeys : f[k] \in PatchDocValues(k) },
        m \in { {}, {"backFields"} } }

PatchProps ==
    { pick(c) :
        c \in { f \in [ PatchKeys -> UNION { PatchPropValues(k) : k \in PatchKeys } ] :
                  \A k \in PatchKeys : f[k] \in PatchPropValues(k) } }

\* the accumulated field areas drawn: the areas of a subset hold n records
PatchAreaFields ==
    { [ a \in Range(areas) |->
          IF a \in S THEN [ i \in 1..n |-> Field(i) ] ELSE << >> ] :
        S \in { {}, {"primaryFields"}, {"backFields"},
                {"primaryFields", "headerFields"}, Range(areas) },
        n \in 1..MaxFields }

\* the options the Pass is constructed with
PatchOptions ==
    { EmptyObject,
      [ k \in {"shouldOverwrite"} |-> Bool(TRUE) ],
      [ k \in {"shouldOverwrite"} |-> Bool(FALSE) ] }

InitPatch ==
    /\ options \in PatchOptions
    /\ shouldOverwrite = constructShouldOverwrite(options)
    /\ Certificates = [ r \in {} |-> Undefined ]
    /\ model = << >>
    /\ l10n = [ l \in {} |-> EmptyObject ]
    /\ props \in PatchProps
    /\ areaFields \in PatchAreaFields
    /\ type = "generic"
    /\ disk = NoDisk
    /\ NotGenerating
    /\ NothingReturned
    /\ passBuffer \in PatchDocs
    /\ patched = NotPatched

\* one call of _patch(passBuffer)
Patch ==
    /\ pc = "idle"
    /\ patched = NotPatched
    /\ patched' = _patch(passBuffer, props, shouldOverwrite, type, areaFields)
    /\ props' = patched'.props
    /\ pc' = "patched"
    /\ call' = Called("_patch", Undefined)
    /\ UNCHANGED << options, model, l10n, shouldOverwrite, Certificates,
                    areaFields, type, disk, files, bundle, buffers, L10N,
                    archive, manifest, io, error, ret, handles, barcodeAlias,
                    passBuffer >>

NextPatch == Patch

SpecPatch == InitPatch /\ [][NextPatch]_vars

-----------------------------------------------------------------------------
(* Properties of _patch taken alone *)

\* the descriptor _patch was given
givenDescriptor == payload(parse(passBuffer))

\* the descriptor in the buffer _patch resolved to
patchedDescriptor == payload(parse(patched.buffer))

patchReturned == pc = "patched" /\ ~patched.threw

\* C2: for an array-valued override on a property whose descriptor value is
\* an array, the overwrite policy leaves exactly the override array and the
\* extend policy leaves the descriptor's array followed by the override's
\* elements in order.
C2_ArrayOverride ==
    patchReturned =>
        \A k \in DOMAIN props :
            (isArray(props[k]) /\ isArray(get(givenDescriptor, k))) =>
                get(patchedDescriptor, k) =
                    IF shouldOverwrite
                    THEN props[k]
                    ELSE Arr(payload(givenDescriptor[k]) \o payload(props[k]))

\* C2 witness: under the extend policy, [1] merged into [0] gave [0, 1]
C2_Witness ==
    /\ patchReturned
    /\ ~shouldOverwrite
    /\ get(givenDescriptor, "locations") = Arr(<< Num(0) >>)
    /\ get(props, "locations") = Arr(<< Num(1) >>)
    /\ get(patchedDescriptor, "locations") = Arr(<< Num(0), Num(1) >>)

isScalar(v) == tagOf(v) \in {"string", "number", "boolean"}

\* C9: under the extend policy, every override property whose existing
\* descriptor value is a scalar holds the override's value after the patch.
C9_ExtendReplacesScalars ==
    (patchReturned /\ ~shouldOverwrite) =>
        \A k \in DOMAIN props :
            (k \in DOMAIN givenDescriptor /\ isScalar(givenDescriptor[k])) =>
                get(patchedDescriptor, k) = props[k]

\* C10: whatever the override properties (none included), each field area of
\* the patched descriptor's type structure holds the descriptor's original
\* records followed by the records accumulated in that area.
C10_FieldsAppended ==
    patchReturned =>
        \A i \in DOMAIN areas :
            areas[i] \in DOMAIN payload(givenDescriptor[type]) =>
                get(payload(patchedDescriptor[type]), areas[i]) =
                    Arr(payload(payload(givenDescriptor[type])[areas[i]])
                        \o areaFields[areas[i]])

-----------------------------------------------------------------------------
(* What a setter returns *)

\* the methods of Pass.prototype a caller reaches through the Pass itself
PassMethods == { "generate", "localize", "expiration", "void", "relevance",
                 "barcode" }

\* `return this`
ReturnsThis ==
    [ kind |-> "this", same |-> TRUE, length |-> 0,
      autocomplete |-> "absent", backward |-> "absent",
      methods |-> PassMethods ]

\* `return Object.assign({ length, autocomplete, backward }, this)`: a new
\* plain object holding the own fields of the Pass and none of the methods
\* of its prototype (ac, bw: "absent", "noop" or "bound")
ReturnsCopy(n, ac, bw) ==
    [ kind |-> "copy", same |-> FALSE, length |-> n,
      autocomplete |-> ac, backward |-> bw,
      methods |-> { m \in {"autocomplete"} : ac # "absent" }
                  \cup { m \in {"backward"} : bw # "absent" } ]

\* falling off the end of the function
ReturnsUndefined ==
    [ kind |-> "undefined", same |-> FALSE, length |-> 0,
      autocomplete |-> "absent", backward |-> "absent", methods |-> {} ]

-----------------------------------------------------------------------------
(* localize, expiration, void *)

\* a translations argument: kind is what typeof and null-ness make of it,
\* entries its own properties in insertion order
Translations(kind, entries) == [ kind |-> kind, entries |-> entries ]

\* this.l10n[lang] = translations, this.l10n keeping insertion order
l10nSet(l, lang, t) ==
    IF \E i \in DOMAIN l : l[i].lang = lang
    THEN [ i \in DOMAIN l |->
             IF l[i].lang = lang THEN [ lang |-> lang, translations |-> t ]
             ELSE l[i] ]
    ELSE Append(l, [ lang |-> lang, translations |-> t ])

\* localize(lang, translations); typeof null is "object" as well
localize(lang, translations) ==
    /\ pc = "idle"
    /\ l10n' = IF translations.kind \in {"object", "null"}
               THEN l10nSet(l10n, lang, translations)
               ELSE l10n
    /\ call' = Called("localize", Str(lang))
    /\ ret' = ReturnsThis
    /\ UNCHANGED << options, model, props, shouldOverwrite, Certificates,
                    areaFields, type, disk, generateVars, handles,
                    barcodeAlias, patchVars >>

\* the two digits at i as a number, -1 when they are not digits
twoDigits(s, i) ==
    IF i + 1 <= Len(s) /\ isDigit(s[i]) /\ isDigit(s[i + 1])
    THEN numberAt(s, i, 2) ELSE -1

InvalidDate == << "I","n","v","a","l","i","d"," ","d","a","t","e" >>

\* moment(date, ["MM-DD-YYYY"]).format(): the ISO 8601 form of a date written
\* month-day-year, "Invalid date" otherwise (the time zone taken as UTC)
momentFormat(s) ==
    IF /\ Len(s) = 10
       /\ s[3] = "-" /\ s[6] = "-"
       /\ twoDigits(s, 1) \in 1..12
       /\ twoDigits(s, 4) \in 1..31
       /\ \A i \in 7..10 : isDigit(s[i])
    THEN SubSeq(s, 7, 10) \o << "-" >> \o SubSeq(s, 1, 2) \o << "-" >>
         \o SubSeq(s, 4, 5)
         \o << "T","0","0",":","0","0",":","0","0","+","0","0",":","0","0" >>
    ELSE InvalidDate

\* dateToW3CString(date): "" for what is no string or no date
dateToW3CString(date) ==
    IF tagOf(date) # "string" THEN << >>
    ELSE IF momentFormat(payload(date)) = InvalidDate THEN << >>
    ELSE momentFormat(payload(date))

\* expiration(date)
expiration(date) ==
    /\ pc = "idle"
    /\ props' = IF tagOf(date) = "string" /\ dateToW3CString(date) # << >>
                THEN set(props, "expirationDate", Str(dateToW3CString(date)))
                ELSE props
    /\ call' = Called("expiration", date)
    /\ ret' = ReturnsThis
    /\ UNCHANGED << options, model, l10n, shouldOverwrite, Certificates,
                    areaFields, type, disk, generateVars, handles,
                    barcodeAlias, patchVars >>

\* void()
void ==
    /\ pc = "idle"
    /\ props' = set(props, "voided", Bool(TRUE))
    /\ call' = Called("void", Undefined)
    /\ ret' = ReturnsThis
    /\ UNCHANGED << options, model, l10n, shouldOverwrite, Certificates,
                    areaFields, type, disk, generateVars, handles,
                    barcodeAlias, patchVars >>

-----------------------------------------------------------------------------
(* relevance *)

NaN == << "NaN", 0 >>

\* Number(data) for a string of digits, a number, or anything else
Number(data) ==
    CASE tagOf(data) = "number" -> data
      [] tagOf(data) = "string" /\ payload(data) # << >>
            /\ \A i \in DOMAIN payload(data) : isDigit(payload(data)[i]) ->
                Num(numberAt(payload(data), 1, Len(payload(data))))
      [] tagOf(data) = "string" /\ payload(data) = << >> -> Num(0)
      [] OTHER -> NaN

\* schema.isValid(d, schema.constants[type + "Dict"]): a location needs its
\* latitude and longitude, a beacon its proximityUUID
isValidDict(ty, d) ==
    /\ tagOf(d) = "object"
    /\ IF ty = "locations"
       THEN /\ {"latitude", "longitude"} \subseteq DOMAIN payload(d)
            /\ tagOf(payload(d)["latitude"]) = "number"
            /\ tagOf(payload(d)["longitude"]) = "number"
       ELSE /\ "proximityUUID" \in DOMAIN payload(d)
            /\ tagOf(payload(d)["proximityUUID"]) = "string"

relevanceTypes == << "beacons", "locations", "maxDistance", "relevantDate" >>

\* data.filter(d => schema.isValid(d, schema.constants[type + "Dict"]))
RECURSIVE validDicts(_, _)
validDicts(ty, data) ==
    IF data = << >> THEN << >>
    ELSE (IF isValidDict(ty, Head(data)) THEN << Head(data) >> ELSE << >>)
         \o validDicts(ty, Tail(data))

\* relevance(type, data): this.props afterwards
relevanceProps(p, ty, data) ==
    IF ty = "" \/ ~truthy(data) \/ ty \notin Range(relevanceTypes) THEN p
    ELSE IF ty \in {"beacons", "locations"}
    THEN set(p, ty, Arr(validDicts(ty, IF isArray(data) THEN payload(data)
                                       ELSE << data >>)))
    ELSE IF ty = "maxDistance" /\ tagOf(data) \in {"string", "number"}
    THEN set(p, ty, Number(data))
    ELSE IF ty = "relevantDate" /\ dateToW3CString(data) # << >>
    THEN set(p, ty, Str(dateToW3CString(data)))
    ELSE p

\* relevance(type, data): what it returns
relevanceReturn(ty, data) ==
    IF ty = "" \/ ~truthy(data) \/ ty \notin Range(relevanceTypes)
    THEN ReturnsCopy(0, "absent", "absent")
    ELSE IF ty \in {"beacons", "locations"}
    THEN ReturnsCopy(Len(validDicts(ty, IF isArray(data) THEN payload(data)
                                        ELSE << data >>)),
                     "absent", "absent")
    ELSE IF ty = "maxDistance" /\ tagOf(data) \in {"string", "number"}
    THEN ReturnsCopy(1, "absent", "absent")
    ELSE IF ty = "relevantDate"
    THEN ReturnsCopy(IF dateToW3CString(data) # << >> THEN 1 ELSE 0,
                     "absent", "absent")
    ELSE ReturnsUndefined

\* relevance(type, data)
relevance(ty, data) ==
    /\ pc = "idle"
    /\ props' = relevanceProps(props, ty, data)
    /\ call' = Called("relevance", data)
    /\ ret' = relevanceReturn(ty, data)
    /\ UNCHANGED << options, model, l10n, shouldOverwrite, Certificates,
                    areaFields, type, disk, generateVars, handles,
                    barcodeAlias, patchVars >>

-----------------------------------------------------------------------------
(* barcode and its helpers *)

PKBarcodeFormatQR ==
    << "P","K","B","a","r","c","o","d","e","F","o","r","m","a","t","Q","R" >>
PKBarcodeFormatPDF417 ==
    << "P","K","B","a","r","c","o","d","e","F","o","r","m","a","t",
       "P","D","F","4","1","7" >>
PKBarcodeFormatAztec ==
    << "P","K","B","a","r","c","o","d","e","F","o","r","m","a","t",
       "A","z","t","e","c" >>
PKBarcodeFormatCode128 ==
    << "P","K","B","a","r","c","o","d","e","F","o","r","m","a","t",
       "C","o","d","e","1","2","8" >>

\* the local `types` of __barcodeAutogen
barcodeTypes == << PKBarcodeFormatQR, PKBarcodeFormatPDF417,
                   PKBarcodeFormatAztec, PKBarcodeFormatCode128 >>

iso88591 == << "i","s","o","-","8","8","5","9","-","1" >>

\* whether __barcodeAutogen(data) goes past its first return
autogenAccepts(data) ==
    /\ truthy(data)
    /\ isObject(data) /\ tagOf(data) = "object"
    /\ truthy(get(payload(data), "message"))

\* the object `data` after __barcodeAutogen filled altText and
\* messageEncoding in and deleted format from it
autogenData(data) ==
    LET d  == payload(data)
        d1 == set(d, "altText",
                  IF truthy(get(d, "altText")) THEN d["altText"]
                  ELSE d["message"])
        d2 == set(d1, "messageEncoding",
                  IF truthy(get(d1, "messageEncoding"))
                  THEN d1["messageEncoding"] ELSE Str(iso88591))
    IN  delete(d2, "format")

\* __barcodeAutogen mapping over the first three types only
__barcodeAutogen_threeTypes(data) ==
    IF ~autogenAccepts(data) THEN << >>
    ELSE [ i \in 1..3 |->
             Obj(assign([ k \in {"format"} |-> Str(barcodeTypes[i]) ],
                        autogenData(data))) ]

\* __barcodeAutogen(data): types.map(T => Object.assign({ format: T }, data))
__barcodeAutogen(data) ==
    IF ~autogenAccepts(data) THEN << >>
    ELSE [ i \in DOMAIN barcodeTypes |->
             Obj(assign([ k \in {"format"} |-> Str(barcodeTypes[i]) ],
                        autogenData(data))) ]

\* schema.isValid(b, schema.constants.barcode): an object with a message, a
\* messageEncoding and one of the four formats
isValidBarcode(b) ==
    /\ tagOf(b) = "object"
    /\ tagOf(get(payload(b), "message")) = "string"
    /\ payload(get(payload(b), "message")) # << >>
    /\ tagOf(get(payload(b), "messageEncoding")) = "string"
    /\ tagOf(get(payload(b), "format")) = "string"
    /\ \E i \in DOMAIN barcodeTypes :
          includes(payload(payload(b)["format"]), barcodeTypes[i])
    /\ get(payload(b), "altText") = Undefined
          \/ tagOf(get(payload(b), "altText")) = "string"

\* b.messageEncoding = b.messageEncoding || "iso-8859-1"
withEncoding(b) ==
    IF truthy(get(payload(b), "messageEncoding")) THEN b
    ELSE Obj(set(payload(b), "messageEncoding", Str(iso88591)))

\* the filter of barcode(): the objects of data that the schema accepts
RECURSIVE validBarcodes(_)
validBarcodes(data) ==
    IF data = << >> THEN << >>
    ELSE (IF tagOf(Head(data)) = "object" /\ isValidBarcode(withEncoding(Head(data)))
          THEN << withEncoding(Head(data)) >> ELSE << >>)
         \o validBarcodes(Tail(data))

\* the test that sends barcode(data) to __barcodeAutogen
barcodeAutogenerates(data) ==
    \/ tagOf(data) = "string"
    \/ /\ tagOf(data) = "object"
       /\ ~truthy(get(payload(data), "format"))
       /\ truthy(get(payload(data), "message"))

\* the records barcode(data) stores in props.barcodes (for a truthy data)
barcodeRecords(data) ==
    IF barcodeAutogenerates(data)
    THEN __barcodeAutogen(IF tagOf(data) = "object" THEN data
                          ELSE Obj([ k \in {"message"} |-> data ]))
    ELSE validBarcodes(IF isArray(data) THEN payload(data) ELSE << data >>)

\* barcode(data)
barcode(data) ==
    /\ pc = "idle"
    /\ call' = Called("barcode", data)
    /\ IF ~truthy(data)
       THEN /\ ret' = ReturnsCopy(0, "noop", "noop")
            /\ UNCHANGED << props, handles, barcodeAlias >>
       ELSE /\ props' = set(set(props, "barcode",
                                IF barcodeRecords(data) # << >>
                                THEN barcodeRecords(data)[1]
                                ELSE Obj(EmptyObject)),
                            "barcodes", Arr(barcodeRecords(data)))
            /\ barcodeAlias' = IF barcodeRecords(data) # << >> THEN 1 ELSE 0
            /\ IF barcodeAutogenerates(data)
               THEN /\ ret' = ReturnsCopy(4, "noop", "bound")
                    /\ handles' = handles \cup {"backward"}
               ELSE /\ ret' = ReturnsCopy(Len(barcodeRecords(data)),
                                          "bound", "bound")
                    /\ handles' = handles \cup {"autocomplete", "backward"}
    /\ UNCHANGED << options, model, l10n, shouldOverwrite, Certificates,
                    areaFields, type, disk, generateVars, patchVars >>

\* __barcodeAutocomplete(), called through a closure barcode() returned
__barcodeAutocomplete ==
    /\ pc = "idle"
    /\ "autocomplete" \in handles
    /\ call' = Called("autocomplete", Undefined)
    /\ LET list == payload(props["barcodes"])
       IN  IF Len(list) = 4 \/ Len(list) = 0
           THEN /\ ret' = ReturnsCopy(0, "absent", "bound")
                /\ UNCHANGED << props, barcodeAlias >>
           ELSE /\ ret' = ReturnsCopy(4, "absent", "bound")
                /\ props' =
                     set(IF barcodeAlias = 1 /\ autogenAccepts(list[1])
                         THEN set(props, "barcode", Obj(autogenData(list[1])))
                         ELSE props,
                         "barcodes", Arr(__barcodeAutogen(list[1])))
                /\ barcodeAlias' = 0
    /\ handles' = handles \cup {"backward"}
    /\ UNCHANGED << options, model, l10n, shouldOverwrite, Certificates,
                    areaFields, type, disk, generateVars, patchVars >>

\* the index findIndex gives __barcodeChooseBackward, 0 for -1
backwardIndex(list, format) ==
    IF \E i \in DOMAIN list :
          includes(toLowerCase(payload(payload(list[i])["format"])),
                   toLowerCase(format))
    THEN CHOOSE i \in DOMAIN list :
          /\ includes(toLowerCase(payload(payload(list[i])["format"])),
                      toLowerCase(format))
          /\ \A j \in 1..(i - 1) :
                ~includes(toLowerCase(payload(payload(list[j])["format"])),
                          toLowerCase(format))
    ELSE 0

\* __barcodeChooseBackward(format), called through a closure
__barcodeChooseBackward(format) ==
    /\ pc = "idle"
    /\ "backward" \in handles
    /\ call' = Called("backward", format)
    /\ ret' = ReturnsThis
    /\ IF format = Null
       THEN /\ props' = set(props, "barcode", Undefined)
            /\ barcodeAlias' = 0
       ELSE IF tagOf(format) # "string"
       THEN UNCHANGED << props, barcodeAlias >>
       ELSE LET index == backwardIndex(payload(props["barcodes"]),
                                       payload(format))
            IN  IF index = 0
                THEN UNCHANGED << props, barcodeAlias >>
                ELSE /\ props' = set(props, "barcode",
                                     payload(props["barcodes"])[index])
                     /\ barcodeAlias' = index
    /\ UNCHANGED << options, model, l10n, shouldOverwrite, Certificates,
                    areaFields, type, disk, generateVars, handles, patchVars >>

-----------------------------------------------------------------------------
(* The scan-code operations taken alone *)

msg42 == << "4", "2" >>
altHello == << "h", "i" >>

\* a scan-code record argument with these properties (Undefined: left out)
BarcodeArg(format, message, altText) ==
    Obj(pick([ k \in {"format", "message", "altText"} |->
                 CASE k = "format"  -> format
                   [] k = "message" -> message
                   [] OTHER         -> altText ]))

\* the arguments barcode() is called with
BarcodeData ==
    { Undefined,
      Str(<< >>),
      Str(msg42),
      Num(5),
      BarcodeArg(Undefined, Str(msg42), Undefined),
      BarcodeArg(Undefined, Str(msg42), Str(altHello)),
      BarcodeArg(Undefined, Str(<< >>), Undefined),
      BarcodeArg(Str(PKBarcodeFormatQR), Str(msg42), Undefined),
      BarcodeArg(Str(<< "E","A","N" >>), Str(msg42), Undefined),
      Arr(<< BarcodeArg(Str(PKBarcodeFormatPDF417), Str(msg42), Undefined),
             BarcodeArg(Str(PKBarcodeFormatAztec), Str(altHello), Undefined) >>),
      Arr(<< Num(5),
             BarcodeArg(Str(PKBarcodeFormatCode128), Str(msg42), Str(altHello)) >>),
      Arr(<< BarcodeArg(Str(PKBarcodeFormatQR), Str(msg42), Undefined),
             BarcodeArg(Str(PKBarcodeFormatQR), Str(altHello), Undefined) >>),
      Arr([ i \in 1..5 |->
              BarcodeArg(Str(barcodeTypes[((i - 1) % 4) + 1]), Str(msg42), Undefined) ]),
      Arr(<< >>) }

\* the arguments backward() is called with
BackwardFormats ==
    { Null, Undefined, Num(1),
      Str(<< >>), Str(<< "q","r" >>), Str(<< "P","D","F" >>),
      Str(<< "a","z","t","e","c" >>), Str(<< "x","y","z" >>),
      Str(<< "C","o","d","e","3","9" >>) }

InitBarcode ==
    /\ Constructed(EmptyObject)
    /\ disk = NoDisk
    /\ NotGenerating
    /\ NothingReturned
    /\ NoPatchAlone

NextBarcode ==
    \/ \E data \in BarcodeData : barcode(data)
    \/ __barcodeAutocomplete
    \/ \E format \in BackwardFormats : __barcodeChooseBackward(format)

SpecBarcode == InitBarcode /\ [][NextBarcode]_vars

\* the value of a property of a scan-code record
recordField(b, k) == get(payload(b), k)

\* props.barcodes holds four records, one per fixed format in order
fourFormats(p) ==
    /\ "barcodes" \in DOMAIN p
    /\ Len(payload(p["barcodes"])) = 4
    /\ \A i \in 1..4 :
          recordField(payload(p["barcodes"])[i], "format") = Str(barcodeTypes[i])

\* the argument is a non-empty message string, or an object with a message
\* and no format
singleMessage(arg) ==
    \/ tagOf(arg) = "string" /\ payload(arg) # << >>
    \/ /\ tagOf(arg) = "object"
       /\ "format" \notin DOMAIN payload(arg)
       /\ truthy(get(payload(arg), "message"))

messageOf(arg) == IF tagOf(arg) = "string" THEN arg ELSE payload(arg)["message"]

\* no record's format contains the string, case-insensitively
unmatched(p, s) ==
    \A i \in DOMAIN payload(p["barcodes"]) :
        ~includes(toLowerCase(payload(recordField(payload(p["barcodes"])[i], "format"))),
                  toLowerCase(s))

\* C5: barcode(data) with a non-empty message string, or an object with a
\* message and no format, leaves exactly four records in props.barcodes, one
\* per fixed format, all with the same message, altText and messageEncoding;
\* afterwards backward(null) clears props.barcode and backward(s), for a string
\* s that no record's format contains, changes neither props.barcode nor
\* props.barcodes.
C5_AutogenThenBackward ==
    [][ /\ (call'.op = "barcode" /\ singleMessage(call'.arg)) =>
              /\ fourFormats(props')
              /\ \A i \in 1..4 :
                    LET b == payload(props'["barcodes"])[i]
                        first == payload(props'["barcodes"])[1]
                    IN  /\ recordField(b, "message") = messageOf(call'.arg)
                        /\ recordField(b, "altText") # Undefined
                        /\ recordField(b, "messageEncoding") # Undefined
                        /\ recordField(b, "altText") = recordField(first, "altText")
                        /\ recordField(b, "messageEncoding")
                              = recordField(first, "messageEncoding")
        /\ (call'.op = "backward" /\ fourFormats(props) /\ call'.arg = Null) =>
              get(props', "barcode") = Undefined
        /\ (call'.op = "backward" /\ fourFormats(props)
              /\ tagOf(call'.arg) = "string"
              /\ unmatched(props, payload(call'.arg))) =>
              /\ get(props', "barcode") = get(props, "barcode")
              /\ props'["barcodes"] = props["barcodes"]
      ]_vars

\* C5 witness: after an autogeneration from a single message, backward(null)
\* has cleared the legacy slot
C5_Witness ==
    /\ call = Called("backward", Null)
    /\ fourFormats(props)
    /\ \A i \in 1..4 :
          recordField(payload(props["barcodes"])[i], "message") = Str(msg42)
    /\ "barcode" \in DOMAIN props
    /\ props["barcode"] = Undefined
    /\ "autocomplete" \notin handles

\* the records of props.barcodes, none before barcode() stored any
barcodesHeld == IF "barcodes" \in DOMAIN props THEN payload(props["barcodes"])
                ELSE << >>

\* the legacy slot props.barcode holds a value
legacySet == "barcode" \in DOMAIN props /\ props["barcode"] # Undefined

\* C11: after any sequence of barcode(), autocomplete() and backward() calls,
\* props.barcodes holds at most four records, no two with the same format,
\* and a legacy slot props.barcode that is set has a format and is one of
\* the records of props.barcodes (same format, message, altText and
\* messageEncoding).
C11_BarcodesConsistent ==
    /\ Len(barcodesHeld) <= 4
    /\ \A i, j \in DOMAIN barcodesHeld :
          i # j => recordField(barcodesHeld[i], "format")
                      # recordField(barcodesHeld[j], "format")
    /\ legacySet =>
          /\ tagOf(props["barcode"]) = "object"
          /\ "format" \in DOMAIN payload(props["barcode"])
          /\ \E i \in DOMAIN barcodesHeld :
                \A k \in {"format", "message", "altText", "messageEncoding"} :
                    recordField(barcodesHeld[i], k)
                       = recordField(props["barcode"], k)

-----------------------------------------------------------------------------
(* Names and paths *)

s_icon      == << "i","c","o","n" >>
s_manifest  == << "m","a","n","i","f","e","s","t" >>
s_signature == << "s","i","g","n","a","t","u","r","e" >>
s_pass      == << "p","a","s","s" >>
s_lproj     == << ".","l","p","r","o","j" >>
s_json      == << ".","j","s","o","n" >>
s_strings   == << ".","s","t","r","i","n","g","s" >>
s_png       == << ".","p","n","g" >>

passJson      == s_pass \o s_json
passStrings   == s_pass \o s_strings
manifestJson  == s_manifest \o s_json

\* the index of the last "." of a name, 0 when it has none
lastDot(f) ==
    IF \E i \in DOMAIN f : f[i] = "."
    THEN CHOOSE i \in DOMAIN f : f[i] = "." /\ \A j \in (i + 1)..Len(f) : f[j] # "."
    ELSE 0

\* path.extname(f) for a name without directories: from the last ".", unless
\* the name starts with it
extname(f) == IF lastDot(f) > 1 THEN SubSeq(f, lastDot(f), Len(f)) ELSE << >>

\* path.parse(f).name
parsedName(f) == IF lastDot(f) > 1 THEN SubSeq(f, 1, lastDot(f) - 1) ELSE f

\* path.join(a, b) of two plain names
pathJoin(a, b) == a \o << "/" >> \o b

\* removeHidden(from)
RECURSIVE removeHidden(_)
removeHidden(from) ==
    IF from = << >> THEN << >>
    ELSE (IF charAt(Head(from), 1) # "." THEN << Head(from) >> ELSE << >>)
         \o removeHidden(Tail(from))

\* /(manifest|signature|pass)/i.test(f)
isDynamic(f) ==
    \/ includes(toLowerCase(f), s_manifest)
    \/ includes(toLowerCase(f), s_signature)
    \/ includes(toLowerCase(f), s_pass)

\* list.filter(f => !/(manifest|signature|pass)/i.test(f))
RECURSIVE withoutDynamic(_)
withoutDynamic(list) ==
    IF list = << >> THEN << >>
    ELSE (IF ~isDynamic(Head(list)) THEN << Head(list) >> ELSE << >>)
         \o withoutDynamic(Tail(list))

\* the local noDynList of generate()
noDynList(listing) == withoutDynamic(removeHidden(listing))

\* the test that throws UNINITIALIZED with only its emptiness half
uninitialized_emptyOnly(list) == list = << >>

\* !noDynList.length || !noDynList.some(f => f.toLowerCase().includes("icon"))
uninitialized(list) ==
    \/ list = << >>
    \/ ~\E i \in DOMAIN list : includes(toLowerCase(list[i]), s_icon)

\* Object.keys(this.l10n)
languages(l) == [ i \in DOMAIN l |-> l[i].lang ]

\* noDynList.filter(f => !f.includes(".lproj"))
RECURSIVE bundleOf(_)
bundleOf(list) ==
    IF list = << >> THEN << >>
    ELSE (IF ~includes(Head(list), s_lproj) THEN << Head(list) >> ELSE << >>)
         \o bundleOf(Tail(list))

\* noDynList.filter(f => f.includes(".lproj")
\*     && Object.keys(this.l10n).includes(path.parse(f).name))
RECURSIVE L10NOf(_, _)
L10NOf(list, l) ==
    IF list = << >> THEN << >>
    ELSE (IF includes(Head(list), s_lproj)
             /\ parsedName(Head(list)) \in Range(languages(l))
          THEN << Head(list) >> ELSE << >>)
         \o L10NOf(Tail(list), l)

-----------------------------------------------------------------------------
(* _generateStringFile *)

\* the text String(/\\"/) that replace() inserts for each match
quoteReplacement == << "/", "\\", "\\", "\"", "/" >>

\* value.replace(/"/g, /\\"/): the second argument is a RegExp object, which
\* replace() turns into its source text
RECURSIVE replaceQuotes(_)
replaceQuotes(value) ==
    IF value = << >> THEN << >>
    ELSE (IF Head(value) = "\"" THEN quoteReplacement ELSE << Head(value) >>)
         \o replaceQuotes(Tail(value))

\* one line of the .strings file: `"${key}" = "${value.replace(...)}";`
stringsLine(entry) ==
    << "\"" >> \o entry.key \o << "\"", " ", "=", " ", "\"" >>
    \o replaceQuotes(payload(entry.value)) \o << "\"", ";" >>

\* whether _generateStringFile(lang) throws: Object.keys(null), or replace
\* called on a value that is no string
stringFileThrows(t) ==
    \/ t.kind = "null"
    \/ \E i \in DOMAIN t.entries : tagOf(t.entries[i].value) # "string"

\* _generateStringFile(lang), for translations t = this.l10n[lang]
_generateStringFile(t) ==
    IF t.entries = << >> THEN RawBuffer(<< >>)
    ELSE RawBuffer(join([ i \in DOMAIN t.entries |-> stringsLine(t.entries[i]) ],
                        << "\n" >>))

\* Buffer.length
bufferLength(b) == IF b.layout = "raw" THEN Len(payload(b.doc)) ELSE 1

\* the members the Object.keys(this.l10n).forEach of generate() adds: for
\* every language whose .strings buffer is not empty, its name and buffer
RECURSIVE generatedStrings(_)
generatedStrings(l) ==
    IF l = << >> THEN << >>
    ELSE (IF bufferLength(_generateStringFile(Head(l).translations)) > 0
          THEN << [ name |-> pathJoin(Head(l).lang \o s_lproj, passStrings),
                    content |-> _generateStringFile(Head(l).translations) ] >>
          ELSE << >>)
         \o generatedStrings(Tail(l))

-----------------------------------------------------------------------------
(* Credentials: __parsePEM and the loading loop of _parseSettings *)

s_PRIVATE_KEY == << "P","R","I","V","A","T","E"," ","K","E","Y" >>
s_CERTIFICATE == << "C","E","R","T","I","F","I","C","A","T","E" >>
s_Bag_Attributes ==
    << "B","a","g"," ","A","t","t","r","i","b","u","t","e","s" >>

\* a PEM file: its text, the passphrase that decrypts it when it is a key,
\* and whether node-forge can decode its body
PEM(text, secret, wellFormed) ==
    [ text |-> text, secret |-> secret, wellFormed |-> wellFormed ]

\* forge.pki.decryptRsaPrivateKey(element, passphrase): null when the
\* passphrase does not decrypt the key
decryptRsaPrivateKey(element, passphrase) ==
    IF element.wellFormed /\ passphrase = Str(element.secret)
    THEN << "privateKey", element.text >>
    ELSE Null

\* forge.pki.certificateFromPem(element), which throws on a body it cannot
\* decode
certificateFromPem(element) == << "certificate", element.text >>

\* whether __parsePEM(element, passphrase) throws
parsePEMThrows(element, passphrase) ==
    /\ ~(includes(element.text, s_PRIVATE_KEY) /\ truthy(passphrase))
    /\ includes(element.text, s_CERTIFICATE)
    /\ ~element.wellFormed

\* __parsePEM(element, passphrase): the { key, value } it returns; the empty
\* object of the else branch reads as key undefined, value undefined
__parsePEM(element, passphrase) ==
    IF includes(element.text, s_PRIVATE_KEY) /\ truthy(passphrase)
    THEN [ key |-> "signerKey",
           value |-> decryptRsaPrivateKey(element, passphrase) ]
    ELSE IF includes(element.text, s_CERTIFICATE)
    THEN [ key |-> IF includes(element.text, s_Bag_Attributes)
                   THEN "signerCert" ELSE "wwdr",
           value |-> certificateFromPem(element) ]
    ELSE [ key |-> "undefined", value |-> Undefined ]

\* contents.forEach(file => { ...; this.Certificates[pem.key] = pem.value }):
\* the pem a call returns is an object and never falsy, so the INVALID_CERTS
\* branch is never taken; a throw of __parsePEM ends the loop
RECURSIVE loadCertificates(_, _, _)
loadCertificates(contents, passphrase, certs) ==
    IF contents = << >> THEN [ threw |-> FALSE, Certificates |-> certs ]
    ELSE IF parsePEMThrows(Head(contents), passphrase)
    THEN [ threw |-> TRUE, Certificates |-> certs ]
    ELSE loadCertificates(Tail(contents), passphrase,
             set(certs, __parsePEM(Head(contents), passphrase).key,
                 __parsePEM(Head(contents), passphrase).value))

\* the roles _sign reads from this.Certificates
roles == << "wwdr", "signerCert", "signerKey" >>

\* whether a role is there to sign with
hasRole(certs, r) == r \in DOMAIN certs /\ certs[r] \notin { Undefined, Null }

-----------------------------------------------------------------------------
(* _filterOptions *)

forbidden == << "primaryFields", "secondaryFields", "auxiliaryFields",
                "backFields", "headerFields", "expirationDate", "voided",
                "locations", "beacons", "maxDistance", "relevantDate" >>

supported == << "serialNumber", "userInfo", "authenticationToken", "barcode",
                "backgroundColor", "foregroundColor", "labelColor" >>

\* _filterOptions letting every key of the overrides through
_filterOptions_everything(opts) == opts

\* _filterOptions(opts)
_filterOptions(opts) ==
    [ k \in { o \in DOMAIN opts :
                o \notin Range(forbidden) /\ o \in Range(supported) }
        |-> opts[k] ]

-----------------------------------------------------------------------------
(* _validateType and _sign *)

passTypes == << "boardingPass", "eventTicket", "coupon", "generic",
                "storeCard" >>

\* the first of passTypes the descriptor has, "undefined" when it has none
typeOf(passFile) ==
    IF \E i \in DOMAIN passTypes : passTypes[i] \in DOMAIN passFile
    THEN passTypes[CHOOSE i \in DOMAIN passTypes :
            /\ passTypes[i] \in DOMAIN passFile
            /\ \A j \in 1..(i - 1) : passTypes[j] \notin DOMAIN passFile]
    ELSE "undefined"

\* schema.isValid(passFile[type], the structure schema): an object whose
\* field areas, where present, are arrays
isValidStructure(structure) ==
    /\ tagOf(structure) = "object"
    /\ \A a \in Range(areas) \cap DOMAIN payload(structure) :
          isArray(payload(structure)[a])

\* this.type after _validateType(passBuffer)
validatedType(buf, ty) ==
    IF parses(buf) /\ tagOf(parse(buf)) = "object"
       /\ typeOf(payload(parse(buf))) # "undefined"
    THEN typeOf(payload(parse(buf)))
    ELSE ty

\* _validateType(passBuffer)
_validateType(buf) ==
    /\ parses(buf)
    /\ tagOf(parse(buf)) = "object"
    /\ typeOf(payload(parse(buf))) # "undefined"
    /\ isValidStructure(payload(parse(buf))[typeOf(payload(parse(buf)))])

\* the SHA-1 digest of a buffer's bytes, in hex
sha1(buffer) == << "sha1", buffer >>

\* whether node-forge throws inside _sign: a certificate or the key it is
\* handed is missing
signThrows(certs) == \E i \in DOMAIN roles : ~hasRole(certs, roles[i])

\* _sign(manifest): the detached PKCS #7 signature, DER encoded
_sign(m, certs) ==
    Buffer("der", << "pkcs7",
                     [ content |-> m,
                       certificates |-> << certs["wwdr"], certs["signerCert"] >>,
                       signerKey |-> certs["signerKey"] ] >>)

\* JSON.stringify(manifest), as the archive stores it
manifestBuffer(m) == Buffer("compact", << "manifest", m >>)

-----------------------------------------------------------------------------
(* generate(): the promise chain, one action per link *)

\* schema.isValid(options, schema.constants.instance): a model, and the
\* three certificate entries, the key with its file and passphrase
isValidInstance(opts) ==
    /\ {"model", "certificates"} \subseteq DOMAIN opts
    /\ tagOf(opts["model"]) = "string"
    /\ tagOf(opts["certificates"]) = "object"
    /\ DOMAIN payload(opts["certificates"]) = Range(roles)
    /\ tagOf(payload(opts["certificates"])["wwdr"]) = "string"
    /\ tagOf(payload(opts["certificates"])["signerCert"]) = "string"
    /\ tagOf(payload(opts["certificates"])["signerKey"]) = "object"
    /\ DOMAIN payload(payload(opts["certificates"])["signerKey"])
          = {"keyFile", "passphrase"}

\* the files Object.keys(options.certificates).map(...) reads, in key order
certificatePaths(opts) ==
    [ i \in DOMAIN roles |->
        LET cert == payload(opts["certificates"])[roles[i]]
        IN  IF isObject(cert) THEN payload(payload(cert)["keyFile"])
            ELSE payload(cert) ]

\* options.certificates.signerKey.passphrase
passphraseOf(opts) ==
    payload(payload(opts["certificates"])["signerKey"])["passphrase"]

\* path.resolve(options.model) + (!path.extname(options.model) ? ".pass" : "")
resolvedModel(m) ==
    IF extname(m) = << >> THEN m \o << "." >> \o s_pass ELSE m

\* generate() rejects (or throws) with this error
Fail(e) == pc' = "failed" /\ error' = e

\* _parseSettings(this.options): validation, the overrides merged into
\* this.props, the certificate files read and classified; the catch of
\* generate() turns a missing file into NOT_FOUND and rethrows anything else
generate_parseSettings ==
    /\ pc = "idle"
    /\ call' = Called("generate", Undefined)
    /\ IF ~isValidInstance(options)
       THEN /\ Fail("REQS_NOT_MET")
            /\ UNCHANGED << model, props, Certificates, io, barcodeAlias >>
       ELSE IF payload(options["model"]) = << >>
       THEN /\ Fail("MODEL_NOT_STRING")
            /\ UNCHANGED << model, props, Certificates, io, barcodeAlias >>
       ELSE
         /\ model' = resolvedModel(payload(options["model"]))
         /\ IF tagOf(get(options, "overrides")) # "object"
            THEN /\ Fail("TypeError")
                 /\ UNCHANGED << props, Certificates, io, barcodeAlias >>
            ELSE
              LET filtered == _filterOptions(payload(options["overrides"]))
                  paths    == certificatePaths(options)
              IN  /\ props' = assign(props, filtered)
                  /\ barcodeAlias' = IF "barcode" \in DOMAIN filtered THEN 0
                                     ELSE barcodeAlias
                  /\ io' = io \cup {"readCertificate"}
                  /\ IF \E i \in DOMAIN paths : paths[i] \notin DOMAIN disk.pem
                     THEN /\ Fail("NOT_FOUND")
                          /\ UNCHANGED Certificates
                     ELSE LET loaded ==
                                loadCertificates(
                                    [ i \in DOMAIN paths |-> disk.pem[paths[i]] ],
                                    passphraseOf(options), Certificates)
                          IN  /\ Certificates' = loaded.Certificates
                              /\ IF loaded.threw THEN Fail("Error")
                                 ELSE pc' = "readdir" /\ UNCHANGED error
    /\ UNCHANGED << options, l10n, shouldOverwrite, areaFields, type, disk,
                    files, bundle, buffers, L10N, archive, manifest, ret,
                    handles, patchVars >>

\* readdir(this.model) and the catch after it
generate_readdir ==
    /\ pc = "readdir"
    /\ call' = Called("generate", Undefined)
    /\ IF disk.exists /\ model = disk.root
       THEN /\ files' = disk.listing
            /\ io' = io \cup {"listModel"}
            /\ pc' = "collect"
            /\ UNCHANGED error
       ELSE /\ Fail("NOT_FOUND")
            /\ UNCHANGED << files, io >>
    /\ UNCHANGED << passVars, disk, bundle, buffers, L10N, archive, manifest,
                    ret, handles, barcodeAlias, patchVars >>

\* .then(files => ...): the lists, and the test for an initialized model
generate_collect ==
    /\ pc = "collect"
    /\ call' = Called("generate", Undefined)
    /\ IF uninitialized(noDynList(files))
       THEN /\ Fail("UNINITIALIZED")
            /\ UNCHANGED << bundle, L10N >>
       ELSE /\ bundle' = bundleOf(noDynList(files))
            /\ L10N' = L10NOf(noDynList(files), l10n)
            /\ pc' = "listFolders"
            /\ UNCHANGED error
    /\ UNCHANGED << passVars, disk, files, buffers, archive, manifest, io,
                    ret, handles, barcodeAlias, patchVars >>

\* listByFolder.forEach((folder, index) =>
\*     bundle.push(...folder.map(f => path.join(L10N[index], f))))
RECURSIVE folderMembers(_, _)
folderMembers(folders, listings) ==
    IF folders = << >> THEN << >>
    ELSE [ i \in DOMAIN removeHidden(listings[Head(folders)]) |->
             pathJoin(Head(folders), removeHidden(listings[Head(folders)])[i]) ]
         \o folderMembers(Tail(folders), listings)

\* Promise.all(L10N.map(f => readdir(path.join(this.model, f))
\*     .then(removeHidden))) and the push of what it lists
generate_listFolders ==
    /\ pc = "listFolders"
    /\ call' = Called("generate", Undefined)
    /\ io' = io \cup { e \in {"listFolder"} : L10N # << >> }
    /\ IF \E i \in DOMAIN L10N : L10N[i] \notin DOMAIN disk.folders
       THEN /\ Fail("IOError")
            /\ UNCHANGED bundle
       ELSE /\ bundle' = bundle \o folderMembers(L10N, disk.folders)
            /\ pc' = "readBundle"
            /\ UNCHANGED error
    /\ UNCHANGED << passVars, disk, files, buffers, L10N, archive, manifest,
                    ret, handles, barcodeAlias, patchVars >>

\* the errors the reads of the bundle files and passExtractor() can reject
\* with; Promise.all rejects with whichever comes first
readErrors(names, ty, p) ==
    { e \in {"IOError"} :
        \/ \E i \in DOMAIN names : names[i] \notin DOMAIN disk.content
        \/ passJson \notin DOMAIN disk.content }
    \cup { e \in {"VALIDATION_FAILED"} :
             /\ passJson \in DOMAIN disk.content
             /\ ~_validateType(disk.content[passJson]) }
    \cup { e \in {"TypeError"} :
             /\ passJson \in DOMAIN disk.content
             /\ _validateType(disk.content[passJson])
             /\ _patch(disk.content[passJson], p, shouldOverwrite, ty,
                       areaFields).threw }

\* the reads of every bundle file and of pass.json, its validation and
\* patch, and the .strings buffers generated once all of them resolved
generate_readBundle ==
    /\ pc = "readBundle"
    /\ call' = Called("generate", Undefined)
    /\ LET readable == passJson \in DOMAIN disk.content
           ty       == IF readable
                       THEN validatedType(disk.content[passJson], type)
                       ELSE type
           valid    == readable /\ _validateType(disk.content[passJson])
           result   == _patch(disk.content[passJson], props, shouldOverwrite,
                              ty, areaFields)
           errors   == readErrors(bundle, ty, props)
       IN  /\ type' = ty
           /\ props' = IF valid THEN result.props ELSE props
           /\ IF errors # {}
              THEN /\ \E e \in errors : Fail(e)
                   /\ io' = io \cup {"readPass"}
                                \cup { e \in {"readFile"} : bundle # << >> }
                   /\ UNCHANGED << bundle, buffers >>
              ELSE /\ io' = io \cup {"readPass"}
                                \cup { e \in {"readFile"} : bundle # << >> }
                                \cup { e \in {"strings"} : l10n # << >> }
                   /\ IF \E i \in DOMAIN l10n : stringFileThrows(l10n[i].translations)
                      THEN /\ Fail("TypeError")
                           /\ UNCHANGED << bundle, buffers >>
                      ELSE /\ buffers' =
                                [ i \in DOMAIN bundle |-> disk.content[bundle[i]] ]
                                \o << result.buffer >>
                                \o [ i \in DOMAIN generatedStrings(l10n) |->
                                       generatedStrings(l10n)[i].content ]
                           /\ bundle' =
                                bundle \o << passJson >>
                                \o [ i \in DOMAIN generatedStrings(l10n) |->
                                       generatedStrings(l10n)[i].name ]
                           /\ pc' = "manifest"
                           /\ UNCHANGED error
    /\ UNCHANGED << options, model, l10n, shouldOverwrite, Certificates,
                    areaFields, disk, files, L10N, archive, manifest, ret,
                    handles, barcodeAlias, patchVars >>

\* buffers.reduce((acc, current, index) => { ...; acc[filename] = digest }):
\* a later buffer under a name already seen overwrites its entry
manifestOf(names, bufs) ==
    [ n \in Range(names) |->
        sha1(bufs[CHOOSE i \in DOMAIN names :
                    names[i] = n /\ \A j \in (i + 1)..Len(names) : names[j] # n]) ]

\* the reduce: every buffer appended to the archive under bundle[index]
generate_manifest ==
    /\ pc = "manifest"
    /\ call' = Called("generate", Undefined)
    /\ archive' = [ i \in DOMAIN buffers |->
                      [ name |-> bundle[i], content |-> buffers[i] ] ]
    /\ manifest' = manifestOf(bundle, buffers)
    /\ pc' = "sign"
    /\ UNCHANGED << passVars, disk, files, bundle, buffers, L10N, io, error,
                    ret, handles, barcodeAlias, patchVars >>

\* _sign(manifest), then the signature and manifest.json appended and the
\* archive finalized
generate_sign ==
    /\ pc = "sign"
    /\ call' = Called("generate", Undefined)
    /\ io' = io \cup {"sign"}
    /\ IF signThrows(Certificates)
       THEN /\ Fail("Error")
            /\ UNCHANGED archive
       ELSE /\ archive' = archive
                \o << [ name |-> s_signature,
                        content |-> _sign(manifest, Certificates) ],
                      [ name |-> manifestJson,
                        content |-> manifestBuffer(manifest) ] >>
            /\ pc' = "done"
            /\ UNCHANGED error
    /\ UNCHANGED << passVars, disk, files, bundle, buffers, L10N, manifest,
                    ret, handles, barcodeAlias, patchVars >>

generate ==
    \/ generate_parseSettings
    \/ generate_readdir
    \/ generate_collect
    \/ generate_listFolders
    \/ generate_readBundle
    \/ generate_manifest
    \/ generate_sign

-----------------------------------------------------------------------------
(* The environments generate() runs in *)

\* most entries a translation map passed to localize() holds
MaxEntries == 2

n_icon     == s_icon \o s_png
n_Icon2x   == << "I","c","o","n","@","2","x" >> \o s_png
n_passicon == s_pass \o s_icon \o s_png
n_hidden   == << "." >> \o s_icon \o s_png
n_logo     == << "l","o","g","o" >> \o s_png
n_DS_Store == << ".","D","S","_","S","t","o","r","e" >>
n_en       == << "e","n" >>
n_it       == << "i","t" >>
n_enLproj  == n_en \o s_lproj
n_itLproj  == n_it \o s_lproj

\* the bytes of an asset, told apart by the path they are stored under
Asset(path) == RawBuffer(<< "P","N","G",":" >> \o path)

\* the listings of the localization folders on disk
FoldersOnDisk ==
    [ f \in { n_enLproj, n_itLproj } |->
        IF f = n_enLproj THEN << n_logo, passStrings >>
        ELSE << n_DS_Store, n_logo >> ]

\* a valid descriptor, of type generic
GoodDescriptor ==
    DescriptorFile([ k \in {"serialNumber", "generic"} |->
                       IF k = "serialNumber" THEN Str(<< "B" >>)
                       ELSE structureOf({}) ])

\* the pass.json files drawn: valid, not JSON, without a type, with a
\* structure the schema rejects
Descriptors ==
    { GoodDescriptor,
      RawBuffer(<< "{" >>),
      DescriptorFile([ k \in {"serialNumber"} |-> Str(<< "B" >>) ]),
      DescriptorFile([ k \in {"coupon"} |-> Str(<< "B" >>) ]) }

\* every file but pass.json that a model directory may hold
AssetPaths ==
    { n_icon, n_Icon2x, n_passicon, n_hidden, n_logo, n_DS_Store, manifestJson }
    \cup { pathJoin(n_enLproj, f) : f \in Range(FoldersOnDisk[n_enLproj]) }
    \cup { pathJoin(n_itLproj, f) : f \in Range(FoldersOnDisk[n_itLproj]) }

\* a file that is not there
NoFile == Buffer("missing", Undefined)

\* the file contents on disk; descriptor is NoFile when pass.json is missing
ContentOnDisk(descriptor) ==
    [ p \in AssetPaths \cup { x \in {passJson} : descriptor # NoFile } |->
        IF p = passJson THEN descriptor ELSE Asset(p) ]

\* the credential files on disk
p_wwdr == << "w" >>
p_cert == << "c" >>
p_key  == << "k" >>
s_secret == << "p","w" >>

GoodPems ==
    [ p \in { p_wwdr, p_cert, p_key } |->
        IF p = p_wwdr THEN PEM(s_CERTIFICATE, << >>, TRUE)
        ELSE IF p = p_cert
        THEN PEM(s_Bag_Attributes \o << " " >> \o s_CERTIFICATE, << >>, TRUE)
        ELSE PEM(s_PRIVATE_KEY, s_secret, TRUE) ]

\* the credential files drawn: good, the authority file unclassifiable, the
\* signer certificate without its bag attributes, the key under another
\* passphrase, the key file missing, the authority certificate undecodable
PemsOnDisk ==
    { GoodPems,
      [ GoodPems EXCEPT ![p_wwdr] = PEM(<< "j","u","n","k" >>, << >>, TRUE) ],
      [ GoodPems EXCEPT ![p_cert] = PEM(s_CERTIFICATE, << >>, TRUE) ],
      [ GoodPems EXCEPT ![p_key] = PEM(s_PRIVATE_KEY, << "x" >>, TRUE) ],
      [ p \in { p_wwdr, p_cert } |-> GoodPems[p] ],
      [ GoodPems EXCEPT ![p_wwdr] = PEM(s_CERTIFICATE, << >>, FALSE) ] }

\* the listings of the model directory drawn
Listings ==
    { << n_DS_Store >> \o iconPart \o logoPart \o folderPart
         \o << manifestJson, passJson >> :
        iconPart \in { << >>, << n_icon >>, << n_Icon2x >>, << n_passicon >>,
                       << n_hidden >> },
        logoPart \in { << >>, << n_logo >> },
        folderPart \in { << >>, << n_enLproj >>, << n_itLproj >>,
                         << n_enLproj, n_itLproj >> } }

GoodListing ==
    << n_DS_Store, n_icon, n_logo, n_enLproj, manifestJson, passJson >>

s_model == << "m" >>

\* a model directory on disk
Disk(listing, descriptor, pems) ==
    [ exists |-> TRUE, root |-> resolvedModel(s_model), listing |-> listing,
      folders |-> FoldersOnDisk, content |-> ContentOnDisk(descriptor),
      pem |-> pems ]

\* the disks drawn: every listing, then every descriptor, then every set of
\* credential files, the rest being good
Disks ==
    { Disk(l, GoodDescriptor, GoodPems) : l \in Listings }
    \cup { Disk(GoodListing, d, GoodPems) : d \in Descriptors \cup {NoFile} }
    \cup { Disk(GoodListing, GoodDescriptor, p) : p \in PemsOnDisk }

\* the options object of a caller: the model path and the overrides vary
Options(modelPath, overrides) ==
    [ k \in {"model", "certificates", "overrides"} |->
        CASE k = "model" -> Str(modelPath)
          [] k = "overrides" -> Obj(overrides)
          [] OTHER ->
               Obj([ r \in Range(roles) |->
                       CASE r = "wwdr" -> Str(p_wwdr)
                         [] r = "signerCert" -> Str(p_cert)
                         [] OTHER ->
                              Obj([ x \in {"keyFile", "passphrase"} |->
                                      IF x = "keyFile" THEN Str(p_key)
                                      ELSE Str(s_secret) ]) ]) ]

\* the entries translation maps are built from
EntryPool ==
    { [ key |-> << "h","i" >>, value |-> Str(<< "c","i","a","o" >>) ],
      [ key |-> << "q" >>, value |-> Str(<< "a", "\"", "b" >>) ],
      [ key |-> << "n" >>, value |-> Num(5) ] }

\* the sequences of at most n entries with distinct keys
EntrySeqs(n) ==
    { s \in UNION { [ 1..k -> EntryPool ] : k \in 0..n } :
        \A i, j \in DOMAIN s : i # j => s[i].key # s[j].key }

\* the translations localize() is called with
TranslationsDrawn ==
    { Translations("object", s) : s \in EntrySeqs(MaxEntries) }
    \cup { Translations("null", << >>), Translations("string", << >>) }

Languages == { n_en, n_it }

\* a caller's overrides of the serial number
SerialOverride == [ k \in {"serialNumber"} |-> Str(<< "A" >>) ]

\* the constructor's options and the disk: every disk under the plain options
\* and under an override; a model path that is not on disk, and options
\* without certificates, over the good disk
Init ==
    /\ \/ /\ \E o \in { Options(s_model, EmptyObject),
                        Options(s_model, SerialOverride) } : Constructed(o)
          /\ disk \in Disks
       \/ /\ \E o \in { Options(<< "x" >>, EmptyObject),
                        [ k \in {"model"} |-> Str(s_model) ] } : Constructed(o)
          /\ disk = Disk(GoodListing, GoodDescriptor, GoodPems)
    /\ NotGenerating
    /\ NothingReturned
    /\ NoPatchAlone

Next ==
    \/ \E lang \in Languages, t \in TranslationsDrawn : localize(lang, t)
    \/ generate

Spec == Init /\ [][Next]_vars

-----------------------------------------------------------------------------
(* Properties of generate() *)

\* the members appended to the archive before signature and manifest.json
bundleMembers == SubSeq(archive, 1, Len(archive) - 2)

\* C1: after a successful generate(), the manifest keys are the names of the
\* members appended before signature and manifest.json, there are as many
\* manifest entries as such members, no name was appended twice, and the
\* manifest value under each name is the SHA-1 digest of the bytes appended
\* under it.
C1_ManifestMatchesMembers ==
    pc = "done" =>
        /\ DOMAIN manifest = { bundleMembers[i].name : i \in DOMAIN bundleMembers }
        /\ Cardinality(DOMAIN manifest) = Len(bundleMembers)
        /\ \A i, j \in DOMAIN bundleMembers :
              i # j => bundleMembers[i].name # bundleMembers[j].name
        /\ \A i \in DOMAIN bundleMembers :
              manifest[bundleMembers[i].name] = sha1(bundleMembers[i].content)

\* the listing, without hidden names and names matching
\* manifest/signature/pass, holds no name that includes "icon"
lacksIcon(listing) ==
    ~\E i \in DOMAIN listing :
        /\ charAt(listing[i], 1) # "."
        /\ ~isDynamic(listing[i])
        /\ includes(toLowerCase(listing[i]), s_icon)

\* the events that must not precede the UNINITIALIZED failure
laterEvents == { "listFolder", "readFile", "readPass", "strings", "sign" }

\* C4: when the listing of the model directory has no icon among its visible,
\* non-dynamic names, generate() goes from the listing to the UNINITIALIZED
\* failure and nowhere else: no localization folder is listed, no bundle file
\* or pass.json is read, no .strings buffer is generated, _sign is not called.
C4_NoIconFailsFirst ==
    ("listModel" \in io /\ lacksIcon(files)) =>
        /\ pc \in {"collect", "failed"}
        /\ pc = "failed" => error = "UNINITIALIZED"
        /\ io \cap laterEvents = {}

\* C4 witness: a listing with a logo and a localization folder of a
\* registered language, but no icon, failed as UNINITIALIZED
C4_Witness ==
    /\ pc = "failed"
    /\ error = "UNINITIALIZED"
    /\ n_logo \in Range(files)
    /\ n_enLproj \in Range(files)
    /\ n_en \in Range(languages(l10n))
    /\ lacksIcon(files)

\* value with every double quote preceded by a backslash, nothing else changed
RECURSIVE escapedQuotes(_)
escapedQuotes(value) ==
    IF value = << >> THEN << >>
    ELSE (IF Head(value) = "\"" THEN << "\\", "\"" >> ELSE << Head(value) >>)
         \o escapedQuotes(Tail(value))

\* the members generate() added after pass.json: the generated ones
generatedMembers ==
    LET at == CHOOSE i \in DOMAIN bundle :
                 bundle[i] = passJson /\ \A j \in (i + 1)..Len(bundle) : bundle[j] # passJson
    IN  [ i \in 1..(Len(bundle) - at) |->
            [ name |-> bundle[at + i], content |-> buffers[at + i] ] ]

\* C6: for every language registered with localize(), an empty translation
\* map adds no <lang>.lproj/pass.strings member, and a map of exactly one
\* entry (key, value) adds one member holding the single line
\* "key" = "value"; with every double quote of value escaped as backslash +
\* double quote and nothing else of value changed.
C6_StringsFile ==
    pc \in {"manifest", "sign", "done"} =>
        \A i \in DOMAIN l10n :
            LET t    == l10n[i].translations
                name == pathJoin(l10n[i].lang \o s_lproj, passStrings)
                mine == { j \in DOMAIN generatedMembers :
                            generatedMembers[j].name = name }
            IN  /\ (t.kind = "object" /\ t.entries = << >>) => mine = {}
                /\ (t.kind = "object" /\ Len(t.entries) = 1
                      /\ tagOf(t.entries[1].value) = "string") =>
                      /\ Cardinality(mine) = 1
                      /\ \A j \in mine :
                            generatedMembers[j].content =
                              RawBuffer(<< "\"" >> \o t.entries[1].key
                                        \o << "\"", " ", "=", " ", "\"" >>
                                        \o escapedQuotes(payload(t.entries[1].value))
                                        \o << "\"", ";" >>)

\* a PEM file the options name matches neither marker
unclassifiable ==
    \E i \in DOMAIN certificatePaths(options) :
        /\ certificatePaths(options)[i] \in DOMAIN disk.pem
        /\ ~includes(disk.pem[certificatePaths(options)[i]].text, s_PRIVATE_KEY)
        /\ ~includes(disk.pem[certificatePaths(options)[i]].text, s_CERTIFICATE)

\* every file the options name was read and handed to __parsePEM
credentialsProcessed ==
    /\ "readCertificate" \in io
    /\ \A i \in DOMAIN certificatePaths(options) :
          certificatePaths(options)[i] \in DOMAIN disk.pem

\* node-forge decodes every file the options name
decodable ==
    \A i \in DOMAIN certificatePaths(options) :
        disk.pem[certificatePaths(options)[i]].wellFormed

\* C7: when a supplied PEM block matches neither marker, or a role is absent
\* once all blocks were processed, generate() fails with INVALID_CERTS; _sign
\* is never reached with a role missing.
C7_InvalidCredentialsFail ==
    /\ (credentialsProcessed /\ decodable
          /\ (unclassifiable \/ \E i \in DOMAIN roles : ~hasRole(Certificates, roles[i])))
          => (pc = "failed" /\ error = "INVALID_CERTS")
    /\ "sign" \in io => \A i \in DOMAIN roles : hasRole(Certificates, roles[i])

-----------------------------------------------------------------------------
(* The setters, then generate(), over a good disk *)

d_good == << "1","0","-","0","4","-","2","0","2","1" >>
d_bad  == << "s","o","o","n" >>
d_override == << "n","e","v","e","r" >>

\* a location and a beacon the schema accepts, and one it rejects
GoodLocation == Obj([ k \in {"latitude", "longitude"} |-> Num(4) ])
BadLocation  == Obj([ k \in {"latitude"} |-> Num(4) ])
GoodBeacon   == Obj([ k \in {"proximityUUID"} |-> Str(<< "u" >>) ])

\* the (type, data) pairs relevance() is called with
RelevanceCalls ==
    { << "locations", GoodLocation >>,
      << "locations", Arr(<< BadLocation >>) >>,
      << "beacons", Arr(<< GoodBeacon, BadLocation >>) >>,
      << "beacons", Undefined >>,
      << "maxDistance", Num(10) >>,
      << "maxDistance", Bool(TRUE) >>,
      << "relevantDate", Str(d_good) >>,
      << "relevantDate", Str(d_bad) >>,
      << "altitude", Num(1) >> }

\* the overrides a caller hands the constructor: none; allowed and managed
\* properties together; a scan-code record and an invalid colour; a property
\* that is on neither list
OverridesDrawn ==
    { EmptyObject,
      [ k \in { "serialNumber", "expirationDate", "voided", "locations",
                "beacons", "maxDistance", "relevantDate", "primaryFields" } |->
          CASE k = "serialNumber" -> Str(<< "A" >>)
            [] k = "voided" -> Bool(FALSE)
            [] k = "maxDistance" -> Num(99)
            [] k \in {"locations", "beacons", "primaryFields"} -> Arr(<< Num(1) >>)
            [] OTHER -> Str(d_override) ],
      [ k \in { "barcode", "backgroundColor" } |->
          IF k = "barcode"
          THEN BarcodeArg(Str(PKBarcodeFormatQR), Str(msg42), Undefined)
          ELSE Str(rgbBad) ],
      [ k \in { "webServiceURL", "labelColor" } |->
          IF k = "labelColor" THEN Str(rgbOk) ELSE Str(<< "u" >>) ] }

InitSetters ==
    /\ \E o \in OverridesDrawn : Constructed(Options(s_model, o))
    /\ disk = Disk(GoodListing, GoodDescriptor, GoodPems)
    /\ NotGenerating
    /\ NothingReturned
    /\ NoPatchAlone

NextSetters ==
    \/ \E t \in { Translations("object", << >>), Translations("string", << >>) } :
          localize(n_en, t)
    \/ \E date \in { Str(d_good), Str(d_bad), Num(5) } : expiration(date)
    \/ void
    \/ \E c \in RelevanceCalls : relevance(c[1], c[2])
    \/ \E data \in { Undefined, Str(msg42),
                     BarcodeArg(Str(PKBarcodeFormatAztec), Str(msg42), Undefined) } :
          barcode(data)
    \/ generate

SpecSetters == InitSetters /\ [][NextSetters]_vars

\* the five setters of the assembly object
setterNames == { "localize", "expiration", "void", "relevance", "barcode" }

\* C3: every setter returns the very Pass it was called on, whatever its
\* argument, so that generate() can be called on what it returned.
C3_SettersReturnThis ==
    call.op \in setterNames => (ret.same /\ "generate" \in ret.methods)

\* the allow-list of override names
allowList == { "serialNumber", "userInfo", "authenticationToken", "barcode",
               "backgroundColor", "foregroundColor", "labelColor" }

\* the caller's overrides
overridesGiven == payload(options["overrides"])

\* C8: in every step of generate(), a property outside the allow-list is in
\* props after the step exactly when it was before, with the same value: what
\* expiration(), void() and relevance() set stays, whatever the overrides
\* name; and when _parseSettings resolves, each override on the allow-list
\* has reached props.
C8_OnlyAllowedOverrides ==
    [][ call'.op = "generate" =>
          /\ \A k \in ((DOMAIN props) \cup (DOMAIN props')
                          \cup (DOMAIN overridesGiven)) \ allowList :
                /\ k \in DOMAIN props' <=> k \in DOMAIN props
                /\ get(props', k) = get(props, k)
          /\ (pc = "idle" /\ pc' = "readdir") =>
                \A k \in (DOMAIN overridesGiven) \cap allowList :
                    get(props', k) = overridesGiven[k]
      ]_vars

\* C8 witness: generate() ran to the end with overrides naming managed
\* properties; props holds the allowed override, the expiration date the
\* setter converted, and no maxDistance, which no setter set
C8_Witness ==
    /\ pc = "done"
    /\ {"expirationDate", "voided", "maxDistance"} \subseteq DOMAIN overridesGiven
    /\ get(props, "serialNumber") = Str(<< "A" >>)
    /\ get(props, "expirationDate") = Str(dateToW3CString(Str(d_good)))
    /\ get(props, "voided") = Bool(TRUE)
    /\ "maxDistance" \notin DOMAIN props
====
